---- MODULE Spec2Model ----
(***************************************************************************)
(* A model of zoom_reset/cli.py: the process-listing parsers, the process  *)
(* terminator, the per-platform path catalog, the backup transaction and   *)
(* the orchestrator (perform_reset / main).                                *)
(*                                                                         *)
(* Text handled by the parsers is a tuple of one-character strings, so     *)
(* that splitting, int() and the substring test are computed, not assumed. *)
(* A filesystem path is a tuple of component names; the filesystem is a    *)
(* function from the existing paths to their nodes.                        *)
(***************************************************************************)
EXTENDS Integers, Sequences, FiniteSets, TLC

VARIABLES
    pc,          \* position of the program being run
    ps_output,   \* parse_ps_output: the listing text handed to the parser
    parsed,      \* parse_ps_output: the list of ProcessInfo returned
    zp_in,       \* zoom_paths: the arguments (system_name, env, home)
    environ,     \* os.environ, the ambient process environment
    zp_out,      \* zoom_paths: outcomes of the calls made so far
    fs,          \* the filesystem: path -> node
    clock,       \* the wall clock, in seconds
    report,      \* what the last os.kill or backup_and_remove call did
    calls,       \* backup_and_remove calls made so far
    cfg,         \* main: platform.system(), the flags, the listing command's behaviour
    unmovable,   \* environment: paths whose move the OS refuses
    system_name, \* perform_reset: local
    processes,   \* perform_reset: local
    kidx,        \* kill_processes: index of the next record
    kills,       \* the pids of the termination requests sent in this run, in order
    backup_root, \* perform_reset: local
    backup_dir,  \* perform_reset: local
    targets,     \* perform_reset: local
    tidx,        \* perform_reset: index of the next target
    exit_code,   \* exit status of the run once it has ended
    hist         \* per finished run: what it started from and where it backed up

parseVars == <<ps_output, parsed>>
pathVars  == <<zp_in, environ, zp_out>>
fsVars    == <<fs, clock>>
callVars  == <<report, calls>>
runVars   == <<cfg, unmovable, system_name, processes, kidx, kills, backup_root,
               backup_dir, targets, tidx, exit_code, hist>>
vars == <<pc, ps_output, parsed, zp_in, environ, zp_out, fs, clock, report, calls,
          cfg, unmovable, system_name, processes, kidx, kills, backup_root,
          backup_dir, targets, tidx, exit_code, hist>>

\* the variables a specification does not use keep these values
IdleParse == ps_output = <<>> /\ parsed = <<>>
IdlePath  == zp_in = <<>> /\ environ = <<>> /\ zp_out = <<>>
IdleFs    == fs = <<>> /\ clock = 0
IdleCall  == report = <<>> /\ calls = 0
IdleRun   == /\ cfg = <<>> /\ unmovable = {} /\ system_name = "" /\ processes = <<>>
             /\ kidx = 0 /\ kills = <<>> /\ backup_root = <<>> /\ backup_dir = <<>>
             /\ targets = <<>>
             /\ tidx = 0 /\ exit_code = -1 /\ hist = <<>>

(***************************************************************************)
(* Text                                                                    *)
(***************************************************************************)
Whitespace == {" ", "\t"}

Digits == <<"0", "1", "2", "3", "4", "5", "6", "7", "8", "9">>

IsDigit(c) == \E i \in 1..Len(Digits) : Digits[i] = c

DigitVal(c) == (CHOOSE i \in 1..Len(Digits) : Digits[i] = c) - 1

Upper == <<"A","B","C","D","E","F","G","H","I","J","K","L","M",
           "N","O","P","Q","R","S","T","U","V","W","X","Y","Z">>

Lower == <<"a","b","c","d","e","f","g","h","i","j","k","l","m",
           "n","o","p","q","r","s","t","u","v","w","x","y","z">>

\* str.lower(), one character
LowerChar(c) ==
    IF \E i \in 1..Len(Upper) : Upper[i] = c
    THEN Lower[CHOOSE i \in 1..Len(Upper) : Upper[i] = c]
    ELSE c

\* str.lower()
LowerStr(s) == [i \in 1..Len(s) |-> LowerChar(s[i])]

\* sub in s
Contains(s, sub) ==
    \E i \in 1..(Len(s) - Len(sub) + 1) : SubSeq(s, i, i + Len(sub) - 1) = sub

RECURSIVE LStrip(_)
LStrip(s) == IF s # <<>> /\ Head(s) \in Whitespace THEN LStrip(Tail(s)) ELSE s

RECURSIVE RStrip(_)
RStrip(s) ==
    IF s # <<>> /\ s[Len(s)] \in Whitespace THEN RStrip(SubSeq(s, 1, Len(s) - 1)) ELSE s

\* str.strip()
Strip(s) == LStrip(RStrip(s))

\* length of the longest prefix of s that holds no whitespace
RECURSIVE WordLen(_)
WordLen(s) == IF s = <<>> \/ Head(s) \in Whitespace THEN 0 ELSE 1 + WordLen(Tail(s))

\* str.split(None, maxsplit): at most maxsplit+1 fields; the last keeps the rest
RECURSIVE Split(_, _)
Split(s, maxsplit) ==
    LET t == LStrip(s) IN
    IF t = <<>> THEN <<>>
    ELSE IF maxsplit = 0 THEN <<t>>
    ELSE LET n == WordLen(t) IN
         <<SubSeq(t, 1, n)>> \o Split(SubSeq(t, n + 1, Len(t)), maxsplit - 1)

\* str.splitlines(), for "\n"
RECURSIVE SplitLines(_)
SplitLines(s) ==
    IF s = <<>> THEN <<>>
    ELSE IF \E i \in 1..Len(s) : s[i] = "\n"
    THEN LET i == CHOOSE j \in 1..Len(s) : s[j] = "\n" /\ \A k \in 1..(j-1) : s[k] # "\n" IN
         <<SubSeq(s, 1, i - 1)>> \o SplitLines(SubSeq(s, i + 1, Len(s)))
    ELSE <<s>>

\* " ".join(parts)
RECURSIVE JoinSpace(_)
JoinSpace(parts) ==
    IF parts = <<>> THEN <<>>
    ELSE IF Len(parts) = 1 THEN parts[1]
    ELSE parts[1] \o <<" ">> \o JoinSpace(Tail(parts))

\* the digits of int(): decimal digits, single underscores between digits allowed
RECURSIVE DigitsOk(_)
DigitsOk(s) ==
    /\ s # <<>>
    /\ IsDigit(s[1])
    /\ \/ Len(s) = 1
       \/ IsDigit(s[2]) /\ DigitsOk(Tail(s))
       \/ s[2] = "_" /\ Len(s) > 2 /\ DigitsOk(SubSeq(s, 3, Len(s)))

RECURSIVE DigitsVal(_, _)
DigitsVal(s, acc) ==
    IF s = <<>> THEN acc
    ELSE IF s[1] = "_" THEN DigitsVal(Tail(s), acc)
    ELSE DigitsVal(Tail(s), 10 * acc + DigitVal(s[1]))

\* int(text): ok is FALSE where Python raises ValueError
ParseInt(text) ==
    LET s    == Strip(text)
        sign == IF s # <<>> /\ s[1] \in {"+", "-"} THEN s[1] ELSE ""
        body == IF sign = "" THEN s ELSE Tail(s)
    IN  IF DigitsOk(body)
        THEN [ok |-> TRUE,
              val |-> IF sign = "-" THEN 0 - DigitsVal(body, 0) ELSE DigitsVal(body, 0)]
        ELSE [ok |-> FALSE, val |-> 0]

ZoomStr == <<"z", "o", "o", "m">>

None == <<"None">>

(***************************************************************************)
(* parse_ps_output                                                         *)
(***************************************************************************)
ProcessInfo(pid, name, command) == [pid |-> pid, name |-> name, command |-> command]

\* the body of the loop of parse_ps_output: the records one line appends
PsLine(line) ==
    LET parts == Split(Strip(line), 2) IN
    IF Len(parts) < 2 THEN <<>>
    ELSE LET n == ParseInt(parts[1]) IN
         IF ~n.ok THEN <<>>
         ELSE LET name    == parts[2]
                  command == IF Len(parts) > 2 THEN parts[3] ELSE None
                  text    == LowerStr(JoinSpace(Tail(parts)))
              IN  IF Contains(text, ZoomStr)
                  THEN <<ProcessInfo(n.val, name, command)>>
                  ELSE <<>>

RECURSIVE PsLines(_)
PsLines(lines) == IF lines = <<>> THEN <<>> ELSE PsLine(Head(lines)) \o PsLines(Tail(lines))

parse_ps_output(output) == PsLines(SplitLines(output))

(***************************************************************************)
(* parse_tasklist_output                                                   *)
(***************************************************************************)
\* index of the first c in s, or Len(s) + 1
RECURSIVE IndexOf(_, _)
IndexOf(s, c) == IF s = <<>> \/ Head(s) = c THEN 1 ELSE 1 + IndexOf(Tail(s), c)

\* csv.reader, one line that is not empty: comma-separated fields, a field in
\* double quotes keeps its commas and loses the quotes (no doubled quotes inside)
RECURSIVE CsvFields(_)
CsvFields(s) ==
    LET quoted == s # <<>> /\ s[1] = "\""
        body   == IF quoted THEN Tail(s) ELSE s
        close  == IF quoted THEN IndexOf(body, "\"") ELSE 0
        inner  == IF quoted THEN SubSeq(body, 1, close - 1) ELSE <<>>
        after  == IF quoted THEN SubSeq(body, close + 1, Len(body)) ELSE body
        comma  == IndexOf(after, ",")
        field  == inner \o SubSeq(after, 1, comma - 1)
    IN  IF comma > Len(after) THEN <<field>>
        ELSE <<field>> \o CsvFields(SubSeq(after, comma + 1, Len(after)))

\* csv.reader, one line: an empty line gives the empty row
CsvRow(line) == IF line = <<>> THEN <<>> ELSE CsvFields(line)

\* the body of the loop of parse_tasklist_output: the records one row appends
TasklistRow(row) ==
    IF row = <<>> THEN <<>>
    ELSE LET name == Strip(row[1]) IN
         IF name = <<>> THEN <<>>
         ELSE IF ~Contains(LowerStr(name), ZoomStr) THEN <<>>
         ELSE IF Len(row) > 1 /\ ParseInt(row[2]).ok
              THEN <<ProcessInfo(ParseInt(row[2]).val, name, None)>>
              ELSE <<>>

RECURSIVE TasklistLines(_)
TasklistLines(lines) ==
    IF lines = <<>> THEN <<>>
    ELSE TasklistRow(CsvRow(Head(lines))) \o TasklistLines(Tail(lines))

parse_tasklist_output(output) == TasklistLines(SplitLines(output))

(***************************************************************************)
(* Listing texts handed to parse_ps_output                                 *)
(***************************************************************************)
MaxLines == 2

PidFields ==
    { <<"1", "2">>, <<"0">>, <<"-", "1">>, <<"+", "7">>, <<"1", "_", "0">>,
      <<"P", "I", "D">>, <<"1", "x">> }

NameFields == { <<"Z", "o", "o", "m">>, <<"s", "h">>, <<"z", "o">> }

\* the ARGS column; <<>> stands for a line that ends after the name
ArgsFields ==
    { <<>>, <<" ", "/", "Z", "O", "O", "M", " ", "-", "x">>, <<"\t", "o", "m">> }

LeadFields == { <<>>, <<" ">> }

PsInputLines ==
    { lead \o pid \o <<" ">> \o name \o args :
        lead \in LeadFields, pid \in PidFields, name \in NameFields, args \in ArgsFields }
    \cup { <<>>, <<"1", "2">>, <<"z", "o", "o", "m">>, <<" ", "7", " ">> }

RECURSIVE PsInputs(_)
PsInputs(n) ==
    IF n = 0 THEN { <<>> }
    ELSE PsInputs(n - 1)
         \cup { line \o <<"\n">> \o rest : line \in PsInputLines, rest \in PsInputs(n - 1) }

InitParse ==
    /\ pc = "parse"
    /\ ps_output \in PsInputs(MaxLines)
    /\ parsed = <<>>
    /\ IdlePath /\ IdleFs /\ IdleCall /\ IdleRun

\* one call of parse_ps_output
ParsePs ==
    /\ pc = "parse"
    /\ parsed' = parse_ps_output(ps_output)
    /\ pc' = "parsed"
    /\ UNCHANGED <<ps_output, pathVars, fsVars, callVars, runVars>>

NextParse == ParsePs

SpecParse == InitParse /\ [][NextParse]_vars

\* what the claim expects of one line: a record exactly when the first field is a
\* non-negative integer and the name or the command line contains "zoom"
ClaimedPsLine(line) ==
    LET parts == Split(Strip(line), 2) IN
    IF /\ Len(parts) >= 2
       /\ ParseInt(parts[1]).ok
       /\ ParseInt(parts[1]).val >= 0
       /\ \/ Contains(LowerStr(parts[2]), ZoomStr)
          \/ Len(parts) > 2 /\ Contains(LowerStr(parts[3]), ZoomStr)
    THEN << <<ParseInt(parts[1]).val, parts[2]>> >>
    ELSE <<>>

RECURSIVE ClaimedPsLines(_)
ClaimedPsLines(lines) ==
    IF lines = <<>> THEN <<>>
    ELSE ClaimedPsLine(Head(lines)) \o ClaimedPsLines(Tail(lines))

IdAndName(records) == [i \in 1..Len(records) |-> <<records[i].pid, records[i].name>>]

\* C9: parse_ps_output returns, in listing order, exactly one record (id, name) for
\* each line whose first field is a valid non-negative integer and whose name or
\* command line contains "zoom" in any case, and nothing for any other line.
C9_OneRecordPerMatchingLine ==
    pc = "parsed" => IdAndName(parsed) = ClaimedPsLines(SplitLines(ps_output))

\* the same, for the lines whose first field is not a negative integer
C9_HoldsWithoutNegativePids ==
    (pc = "parsed" /\ \A i \in 1..Len(parsed) : parsed[i].pid >= 0)
        => IdAndName(parsed) = ClaimedPsLines(SplitLines(ps_output))

(***************************************************************************)
(* zoom_paths                                                              *)
(*                                                                         *)
(* An optional argument is [given |-> FALSE] for None.  A mapping (env,    *)
(* os.environ) is a function from variable names to values; a value that   *)
(* names a directory is held as the path Path(value) denotes.              *)
(***************************************************************************)
NoArg == [given |-> FALSE, val |-> <<>>]

Arg(v) == [given |-> TRUE, val |-> v]

\* the home directory of the password database, used when HOME is not set
PwHome == <<"home", "user">>

\* Path.home()
PathHome(ambient) == IF "HOME" \in DOMAIN ambient THEN ambient["HOME"] ELSE PwHome

\* mapping.get(key, default)
Get(mapping, key, default) == IF key \in DOMAIN mapping THEN mapping[key] ELSE default

\* `x or y` for a mapping argument: None and the empty mapping are both falsy
EnvOr(env, ambient) == IF env.given /\ DOMAIN env.val # {} THEN env.val ELSE ambient

\* `x or y` for a Path argument: every Path is truthy
HomeOr(home, ambient) == IF home.given THEN home.val ELSE PathHome(ambient)

InSeq(x, seq) == \E i \in 1..Len(seq) : seq[i] = x

\* _append_unique
AppendUnique(paths, path) == IF InSeq(path, paths) THEN paths ELSE Append(paths, path)

RECURSIVE AppendAllUnique(_, _)
AppendAllUnique(paths, candidates) ==
    IF candidates = <<>> THEN paths
    ELSE AppendAllUnique(AppendUnique(paths, Head(candidates)), Tail(candidates))

WindowsCandidates(env, home) ==
    LET appdata      == Get(env, "APPDATA", home \o <<"AppData", "Roaming">>)
        localappdata == Get(env, "LOCALAPPDATA", home \o <<"AppData", "Local">>)
    IN  << appdata \o <<"Zoom">>,
           localappdata \o <<"Zoom">>,
           appdata \o <<"zoom.us">>,
           localappdata \o <<"zoom.us">>,
           localappdata \o <<"ZoomOpener">>,
           localappdata \o <<"Temp", "zoom">> >>

MacosCandidates(home) ==
    LET base == home \o <<"Library">> IN
    << base \o <<"Application Support", "zoom.us">>,
       base \o <<"Application Support", "ZoomOpener">>,
       base \o <<"Preferences", "us.zoom.xos.plist">>,
       base \o <<"Caches", "us.zoom.xos">>,
       base \o <<"Logs", "zoom.us">>,
       base \o <<"WebKit", "us.zoom.xos">>,
       base \o <<"Cookies", "us.zoom.xos.binarycookies">> >>

LinuxCandidates(home) ==
    << home \o <<".config", "zoom">>,
       home \o <<".cache", "zoom">>,
       home \o <<".zoom">>,
       home \o <<".var", "app", "us.zoom.Zoom">>,
       home \o <<".cache", "ZoomOpener">> >>

\* zoom_paths(system_name, env=env, home=home) under the ambient environment;
\* ok is FALSE where it raises UnsupportedSystemError
zoom_paths(sysname, env, home, ambient) ==
    LET e == EnvOr(env, ambient)
        h == HomeOr(home, ambient)
    IN  IF sysname = "windows"
        THEN [ok |-> TRUE, paths |-> AppendAllUnique(<<>>, WindowsCandidates(e, h))]
        ELSE IF sysname = "macos"
        THEN [ok |-> TRUE, paths |-> AppendAllUnique(<<>>, MacosCandidates(h))]
        ELSE IF sysname = "linux"
        THEN [ok |-> TRUE, paths |-> AppendAllUnique(<<>>, LinuxCandidates(h))]
        ELSE [ok |-> FALSE, paths |-> <<>>]

(***************************************************************************)
(* Calls of zoom_paths with the same arguments, the ambient environment    *)
(* changing between them                                                   *)
(***************************************************************************)
MaxPathCalls == 2

SystemNames == {"windows", "macos", "linux", "freebsd"}

\* a function given by its pairs
Map1(k, v) == [x \in {k} |-> v]

Map2(k1, v1, k2, v2) == [x \in {k1, k2} |-> IF x = k1 THEN v1 ELSE v2]

EmptyMap == [x \in {} |-> <<>>]

EnvArgs ==
    { NoArg,
      Arg(EmptyMap),
      Arg(Map1("APPDATA", <<"tmp", "roam">>)),
      Arg(Map2("APPDATA", <<"tmp", "roam">>, "LOCALAPPDATA", <<"tmp", "local">>)),
      Arg(Map2("APPDATA", <<"tmp", "same">>, "LOCALAPPDATA", <<"tmp", "same">>)) }

HomeArgs == { NoArg, Arg(<<"home", "tester">>), Arg(<<"Users", "tester">>) }

Environs ==
    { EmptyMap,
      Map1("HOME", <<"home", "tester">>),
      Map2("HOME", <<"root">>, "APPDATA", <<"C", "Roaming">>) }

InitPaths ==
    /\ pc = "paths"
    /\ zp_in \in [system_name : SystemNames, env : EnvArgs, home : HomeArgs]
    /\ environ \in Environs
    /\ zp_out = <<>>
    /\ IdleParse /\ IdleFs /\ IdleCall /\ IdleRun

\* one call of zoom_paths with the arguments zp_in
CallZoomPaths ==
    /\ pc = "paths"
    /\ Len(zp_out) < MaxPathCalls
    /\ zp_out' = Append(zp_out, zoom_paths(zp_in.system_name, zp_in.env, zp_in.home, environ))
    /\ UNCHANGED <<pc, zp_in, environ, parseVars, fsVars, callVars, runVars>>

\* the process environment is changed between two calls
SetEnviron ==
    /\ pc = "paths"
    /\ Len(zp_out) < MaxPathCalls
    /\ environ' \in Environs \ {environ}
    /\ UNCHANGED <<pc, zp_in, zp_out, parseVars, fsVars, callVars, runVars>>

NextPaths == CallZoomPaths \/ SetEnviron

SpecPaths == InitPaths /\ [][NextPaths]_vars

RECURSIVE Dedup(_)
Dedup(seq) ==
    IF seq = <<>> THEN <<>>
    ELSE LET front == Dedup(SubSeq(seq, 1, Len(seq) - 1)) IN
         IF InSeq(seq[Len(seq)], front) THEN front ELSE Append(front, seq[Len(seq)])

\* the fixed table of the three platforms, for an environment and a home directory
ClaimedTable(sysname, env, home) ==
    IF sysname = "windows" THEN WindowsCandidates(env, home)
    ELSE IF sysname = "macos" THEN MacosCandidates(home)
    ELSE LinuxCandidates(home)

DuplicateFree(seq) == \A i, j \in 1..Len(seq) : seq[i] = seq[j] => i = j

ExplicitArgs == zp_in.env.given /\ zp_in.home.given

\* C7: given a home directory and an environment, zoom_paths returns for windows,
\* macos and linux a non-empty duplicate-free list equal in order to the platform's
\* table (built from that environment and that home), and fails with
\* UnsupportedSystemError for every other platform identifier.
C7_CatalogMatchesTable ==
    (pc = "paths" /\ ExplicitArgs) =>
        \A i \in 1..Len(zp_out) :
            IF zp_in.system_name \in {"windows", "macos", "linux"}
            THEN /\ zp_out[i].ok
                 /\ zp_out[i].paths # <<>>
                 /\ DuplicateFree(zp_out[i].paths)
                 /\ zp_out[i].paths
                      = Dedup(ClaimedTable(zp_in.system_name, zp_in.env.val, zp_in.home.val))
            ELSE ~zp_out[i].ok

\* C8: two calls with the same platform identifier, the same explicitly passed
\* environment mapping (an empty mapping included) and the same home directory
\* return the same list, whatever os.environ is at each call.
C8_DeterministicGivenInputs ==
    (pc = "paths" /\ ExplicitArgs) =>
        \A i, j \in 1..Len(zp_out) : zp_out[i] = zp_out[j]

\* both hold when the explicitly passed environment is not empty
C78_HoldForNonEmptyEnv ==
    (pc = "paths" /\ DOMAIN zp_in.env.val # {}) =>
        C7_CatalogMatchesTable /\ C8_DeterministicGivenInputs

(***************************************************************************)
(* The filesystem and the clock                                            *)
(***************************************************************************)
Dir == [kind |-> "dir", data |-> ""]

File(data) == [kind |-> "file", data |-> data]

\* Path.exists()
Exists(f, p) == p \in DOMAIN f

\* os.path.isdir
IsDir(f, p) == Exists(f, p) /\ f[p].kind = "dir"

IsPrefix(p, q) == Len(p) <= Len(q) /\ SubSeq(q, 1, Len(p)) = p

Parent(p) == SubSeq(p, 1, Len(p) - 1)

\* Path.name, the last component
Name(p) == p[Len(p)]

\* the paths of the tree rooted at p
Under(f, p) == { q \in DOMAIN f : IsPrefix(p, q) }

\* q, a path under src, carried to the same relative location under dst
Rebase(q, src, dst) == dst \o SubSeq(q, Len(src) + 1, Len(q))

\* Path.mkdir(parents=True, exist_ok=True): p and its missing ancestors become
\* directories (backup roots over a non-directory are outside the model)
MkdirP(f, p) ==
    LET new == { SubSeq(p, 1, n) : n \in 0..Len(p) } \ DOMAIN f IN
    [q \in DOMAIN f \cup new |-> IF q \in new THEN Dir ELSE f[q]]

\* mutant: the tree is copied to dst and src is left in place
Renamed_KeepsSource(f, src, dst) ==
    LET moved == { Rebase(q, src, dst) : q \in Under(f, src) } IN
    [q \in DOMAIN f \cup moved |-> IF q \in moved THEN f[Rebase(q, dst, src)] ELSE f[q]]

\* os.rename(src, dst) carried out: the tree at src now lives at dst
Renamed(f, src, dst) ==
    LET moved == { Rebase(q, src, dst) : q \in Under(f, src) }
        kept  == (DOMAIN f \ Under(f, src)) \ Under(f, dst)
    IN  [q \in kept \cup moved |->
            IF q \in moved THEN f[Rebase(q, dst, src)] ELSE f[q]]

\* shutil.move(src, dst); refused: the OS refuses to move src (the rename and the
\* copy fallback both fail, nothing is changed).  ok is FALSE where it raises.
shutil_move(f, src, dst, refused) ==
    LET real_dst == IF IsDir(f, dst) THEN dst \o <<Name(src)>> ELSE dst IN
    IF IsDir(f, dst) /\ Exists(f, real_dst)
    THEN [ok |-> FALSE, fs |-> f]                   \* Destination path already exists
    ELSE IF refused
    THEN [ok |-> FALSE, fs |-> f]                   \* OSError from rename and from copy
    ELSE IF IsDir(f, src) /\ IsPrefix(src, real_dst)
    THEN [ok |-> FALSE, fs |-> f]                   \* Cannot move a directory into itself
    ELSE IF IsDir(f, src) /\ Exists(f, real_dst)
    THEN [ok |-> FALSE, fs |-> f]                   \* a directory over a file: FileExistsError
    ELSE IF ~IsDir(f, Parent(real_dst))
    THEN [ok |-> FALSE, fs |-> f]                   \* no directory to move into
    ELSE [ok |-> TRUE, fs |-> Renamed(f, src, real_dst)]

Pad2(n) == IF n < 10 THEN "0" \o ToString(n) ELSE ToString(n)

\* strftime("%H%M%S") of the clock
HHMMSS(now) ==
    Pad2((now \div 3600) % 24) \o Pad2((now \div 60) % 60) \o Pad2(now % 60)

\* mutant: the stamp stops at the minute
Stamp_WithoutSeconds(now) ==
    "202401" \o Pad2((now \div (24 * 3600)) + 1) \o "-"
        \o Pad2((now \div 3600) % 24) \o Pad2((now \div 60) % 60)

\* strftime("%Y%m%d-%H%M%S") of the clock; second 0 is 2024-01-01 00:00:00
Stamp(now) == "202401" \o Pad2((now \div (24 * 3600)) + 1) \o "-" \o HHMMSS(now)

(***************************************************************************)
(* backup_and_remove                                                       *)
(***************************************************************************)
\* mutant: no disambiguation when the name is taken
Destination_NoDisambiguation(f, target, root, now) == root \o <<Name(target)>>

\* the destination backup_and_remove computes
Destination(f, target, root, now) ==
    LET destination == root \o <<Name(target)>> IN
    IF Exists(f, destination)
    THEN Parent(destination) \o <<Name(destination) \o "-" \o HHMMSS(now)>>
    ELSE destination

\* backup_and_remove(target, root, dry_run=dry_run) at time now.
\* outcome: "absent" (silent return), "would_move" (dry run), "moved", or "raised".
backup_and_remove(f, target, root, now, dry_run, refused) ==
    IF ~Exists(f, target)
    THEN [outcome |-> "absent", fs |-> f, destination |-> <<>>]
    ELSE LET destination == Destination(f, target, root, now) IN
         IF dry_run
         THEN [outcome |-> "would_move", fs |-> f, destination |-> destination]
         ELSE LET m == shutil_move(f, target, destination, refused) IN
              [outcome |-> IF m.ok THEN "moved" ELSE "raised",
               fs |-> m.fs, destination |-> destination]

(***************************************************************************)
(* Sequences of backup_and_remove calls on one backup directory            *)
(***************************************************************************)
MaxCalls == 3

MaxClock == 1

BackupDir == <<"t", "bk">>

\* three targets that share their last component, the directory that holds the
\* backup directory, and an entry of the backup directory itself
SameNameTargets == { <<"a", "Zoom">>, <<"l", "Zoom">>, <<"t", "Zoom">> }

BackupTargets == SameNameTargets \cup { <<"t">>, BackupDir \o <<"Zoom">> }

TargetKinds == {"absent", "file", "tree"}

\* the filesystem in which each same-name target is absent, a file or a directory
\* holding one file; the content names where it came from
FsOfKinds(kinds) ==
    LET dirs  == { <<>>, <<"a">>, <<"l">>, <<"t">>, BackupDir }
                   \cup { t \in SameNameTargets : kinds[t] = "tree" }
        files == { t \in SameNameTargets : kinds[t] = "file" }
                   \cup { t \o <<"data">> : t \in { u \in SameNameTargets : kinds[u] = "tree" } }
    IN  [q \in dirs \cup files |-> IF q \in dirs THEN Dir ELSE File(q[1])]

InitBackup ==
    /\ pc = "backup"
    /\ \E kinds \in [SameNameTargets -> TargetKinds] : fs = FsOfKinds(kinds)
    /\ clock = 0
    /\ report = <<>>
    /\ calls = 0
    /\ IdleParse /\ IdlePath /\ IdleRun

\* one call backup_and_remove(target, BackupDir, dry_run=dry_run)
BackupCall ==
    /\ pc = "backup"
    /\ calls < MaxCalls
    /\ \E target \in BackupTargets, dry_run \in BOOLEAN, refused \in BOOLEAN :
         LET r == backup_and_remove(fs, target, BackupDir, clock, dry_run, refused) IN
         /\ fs' = r.fs
         /\ report' = [target |-> target, dry_run |-> dry_run, outcome |-> r.outcome,
                       destination |-> r.destination, refused |-> refused,
                       before |-> fs, now |-> clock]
    /\ calls' = calls + 1
    /\ UNCHANGED <<pc, clock, parseVars, pathVars, runVars>>

\* a second passes
Tick ==
    /\ pc = "backup"
    /\ clock < MaxClock
    /\ clock' = clock + 1
    /\ UNCHANGED <<pc, fs, report, calls, parseVars, pathVars, runVars>>

NextBackup == BackupCall \/ Tick

SpecBackup == InitBackup /\ [][NextBackup]_vars

\* the tree at src in f is the tree at dst in g, node for node
SameTree(f, src, g, dst) ==
    /\ Under(g, dst) = { Rebase(q, src, dst) : q \in Under(f, src) }
    /\ \A q \in Under(f, src) : g[Rebase(q, src, dst)] = f[q]

\* the last call was live, on an existing target the OS lets move, with no entry
\* of that name in the backup directory
LiveCallNoCollision ==
    /\ pc = "backup"
    /\ report # <<>>
    /\ ~report.dry_run
    /\ ~report.refused
    /\ Exists(report.before, report.target)
    /\ ~Exists(report.before, BackupDir \o <<Name(report.target)>>)

MovedToBackup ==
    /\ ~Exists(fs, report.target)
    /\ SameTree(report.before, report.target, fs, BackupDir \o <<Name(report.target)>>)

\* C5 as stated: for every existing target and every backup directory without an
\* entry of the target's name, after a live backup_and_remove the target is gone
\* and backupDir/<name> holds its former content at the same relative locations.
C5_MovesEveryExistingTarget == LiveCallNoCollision => MovedToBackup

\* C5 amended: the same, for every target that does not hold the backup directory
\* (a directory cannot be moved into itself: that call raises and moves nothing).
C5_MovesTargetNotHoldingBackupDir ==
    (LiveCallNoCollision /\ ~IsPrefix(report.target, BackupDir))
        => report.outcome = "moved" /\ MovedToBackup

C5_Witness ==
    /\ LiveCallNoCollision
    /\ report.target = <<"a", "Zoom">>
    /\ IsDir(report.before, report.target)
    /\ fs[BackupDir \o <<"Zoom", "data">>] = File("a")

\* the last call was live, on a target outside the backup directory
LiveCallFromOutside ==
    /\ pc = "backup"
    /\ report # <<>>
    /\ ~report.dry_run
    /\ ~IsPrefix(BackupDir, report.target)

\* every entry the backup directory held before the call is there unchanged
EntriesUnchanged ==
    \A q \in Under(report.before, BackupDir) : Exists(fs, q) /\ fs[q] = report.before[q]

\* what the call added is one new direct child of the backup directory: the target
NewDirectChild ==
    \E child \in { q \in DOMAIN fs : Parent(q) = BackupDir /\ q # <<>> } :
        /\ ~Exists(report.before, child)
        /\ DOMAIN fs \ DOMAIN report.before = Under(fs, child)
        /\ SameTree(report.before, report.target, fs, child)

\* C10 as stated: whatever the sequence of live calls on one backup directory
\* (same last component, same second), every entry already there is unchanged
\* by a call, and the moved target appears as a new direct child.
C10_NeverTouchesExistingEntries ==
    LiveCallFromOutside =>
        EntriesUnchanged /\ (report.outcome = "moved" => NewDirectChild)

\* <name> or <name>-<HHMMSS of the call> is free in the backup directory
NameOrStampedNameFree ==
    LET dest == BackupDir \o <<Name(report.target)>> IN
    \/ ~Exists(report.before, dest)
    \/ ~Exists(report.before, BackupDir \o <<Name(dest) \o "-" \o HHMMSS(report.now)>>)

\* C10 amended: the same, for the calls that find <name> or <name>-<HHMMSS> free
\* in the backup directory.
C10_UntouchedWhenStampedNameFree ==
    (LiveCallFromOutside /\ NameOrStampedNameFree) =>
        EntriesUnchanged /\ (report.outcome = "moved" => NewDirectChild)

\* a second target of the same name was moved beside the first one
C10_Witness ==
    /\ LiveCallFromOutside
    /\ report.outcome = "moved"
    /\ Exists(report.before, BackupDir \o <<"Zoom">>)
    /\ report.destination = BackupDir \o <<"Zoom-000000">>
    /\ Exists(fs, BackupDir \o <<"Zoom">>)
    /\ Exists(fs, BackupDir \o <<"Zoom-000000">>)

(***************************************************************************)
(* main / perform_reset                                                    *)
(***************************************************************************)
MaxRuns == 2

MaxGap == 1

MaxExisting == 2

RawNames == {"Windows", "Darwin", "Linux", "FreeBSD"}

\* SUPPORTED_SYSTEMS
SUPPORTED_SYSTEMS == [n \in {"Windows", "Darwin", "Linux"} |->
    IF n = "Windows" THEN "windows" ELSE IF n = "Darwin" THEN "macos" ELSE "linux"]

\* what the listing command does: it exits non-zero (CalledProcessError), it cannot
\* be started (OSError), or it prints a listing with no, one or two Zoom processes
Listings == {"CalledProcessError", "OSError", "none", "one", "two"}

Q == "\""

\* ps -eo pid,comm,args
PsText(listing) ==
    <<" ", "P", "I", "D", " ", "C", "M", "D", "\n", "3", " ", "s", "h", "\n">>
    \o (IF listing \in {"one", "two"}
        THEN <<"1", "2", " ", "Z", "o", "o", "m", "\n">> ELSE <<>>)
    \o (IF listing = "two"
        THEN <<" ", "7", " ", "s", "h", " ", "/", "z", "o", "o", "m", "\n">> ELSE <<>>)

\* tasklist /FO CSV /NH
TasklistText(listing) ==
    <<Q, "s", "h", Q, ",", Q, "3", Q, "\n">>
    \o (IF listing \in {"one", "two"}
        THEN <<Q, "Z", "o", "o", "m", Q, ",", Q, "1", "2", Q, "\n">> ELSE <<>>)
    \o (IF listing = "two"
        THEN <<Q, "z", "o", "o", "m", "2", Q, ",", Q, "7", Q, "\n">> ELSE <<>>)

\* list_zoom_processes, the command having printed its listing
list_zoom_processes(sysname, listing) ==
    IF sysname \in {"macos", "linux"}
    THEN parse_ps_output(PsText(listing))
    ELSE parse_tasklist_output(TasklistText(listing))

\* the outcomes of os.kill(pid, SIGTERM); "would": dry run, no request is made
KillOutcomes == {"ok", "ProcessLookupError", "PermissionError", "would"}

\* the default of ensure_backup_root
DefaultBackupRoot(ambient) == PathHome(ambient) \o <<".zoom-reset-backups">>

BackupRootArgs == { NoArg, Arg(<<"mnt", "bk">>) }

\* the catalog of the machine the program runs on
Catalog(raw_name) ==
    IF raw_name \in DOMAIN SUPPORTED_SYSTEMS
    THEN zoom_paths(SUPPORTED_SYSTEMS[raw_name], NoArg, NoArg, EmptyMap).paths
    ELSE <<>>

\* a catalog entry on disk: the .plist and .binarycookies entries are files, the
\* others are directories that hold one file; the content names the entry
IsFileEntry(p) == Name(p) \in {"us.zoom.xos.plist", "us.zoom.xos.binarycookies"}

EntryData(p) == p[Len(p) - 1] \o "/" \o Name(p)

\* the filesystem in which, of the catalog, exactly the entries in there exist
FsWith(there) ==
    LET ancestors == UNION { { SubSeq(p, 1, n) : n \in 0..(Len(p) - 1) } : p \in there }
        dirs  == {<<>>, PwHome} \cup ancestors \cup { p \in there : ~IsFileEntry(p) }
        files == { p \in there : IsFileEntry(p) }
                   \cup { p \o <<"data">> : p \in { q \in there : ~IsFileEntry(q) } }
    IN  [q \in dirs \cup files |->
            IF q \in dirs THEN Dir
            ELSE IF Name(q) = "data" /\ Parent(q) \in there THEN File(EntryData(Parent(q)))
            ELSE File(EntryData(q))]

Range(seq) == { seq[i] : i \in 1..Len(seq) }

InitReset ==
    /\ pc = "main"
    /\ cfg \in [raw_name : RawNames, dry_run : BOOLEAN, skip_kill : BOOLEAN,
                backup_root : BackupRootArgs, listing : Listings]
    /\ cfg.skip_kill => cfg.listing = "none"
    /\ environ = EmptyMap
    /\ \E there \in SUBSET Range(Catalog(cfg.raw_name)) :
         /\ Cardinality(there) <= MaxExisting
         /\ fs = FsWith(there)
         /\ unmovable \in {{}} \cup { {p} : p \in there }
    /\ clock = 0
    /\ report = <<>>
    /\ calls = 0
    /\ system_name = "" /\ processes = <<>> /\ kidx = 0 /\ kills = <<>>
    /\ backup_root = <<>> /\ backup_dir = <<>> /\ targets = <<>> /\ tidx = 0
    /\ exit_code = -1
    /\ hist = <<>>
    /\ IdleParse /\ zp_in = <<>> /\ zp_out = <<>>

\* the run ends with status code; the run's record is completed
Exit(code) ==
    /\ pc' = "exit"
    /\ exit_code' = code
    /\ hist' = [hist EXCEPT ![Len(hist)] =
                   [@ EXCEPT !.exit_code = code, !.backup_dir = backup_dir]]

restVars == <<cfg, unmovable, environ, calls, parseVars, zp_in, zp_out>>

\* main is entered: the arguments are parsed, perform_reset is called
Main ==
    /\ pc = "main"
    /\ hist' = Append(hist, [start_fs |-> fs, start_clock |-> clock,
                             backup_dir |-> <<>>, exit_code |-> -1])
    /\ system_name' = "" /\ processes' = <<>> /\ kidx' = 0 /\ kills' = <<>>
    /\ backup_root' = <<>> /\ backup_dir' = <<>> /\ targets' = <<>> /\ tidx' = 0
    /\ exit_code' = -1
    /\ report' = <<>>
    /\ pc' = "detect"
    /\ UNCHANGED <<fs, clock, restVars>>

\* detect_system; UnsupportedSystemError is caught by main: parser.error exits 2
DetectSystem ==
    /\ pc = "detect"
    /\ IF cfg.raw_name \notin DOMAIN SUPPORTED_SYSTEMS
       THEN /\ Exit(2)
            /\ UNCHANGED system_name
       ELSE /\ system_name' = SUPPORTED_SYSTEMS[cfg.raw_name]
            /\ pc' = IF cfg.skip_kill THEN "ensure_backup_root" ELSE "list"
            /\ UNCHANGED <<exit_code, hist>>
    /\ UNCHANGED <<fs, clock, report, processes, kidx, kills, backup_root, backup_dir,
                   targets, tidx, restVars>>

\* mutant: a failing listing is taken for an empty one and the run goes on
ListProcesses_SwallowsFailure ==
    /\ pc = "list"
    /\ processes' = IF cfg.listing \in {"CalledProcessError", "OSError"} THEN <<>>
                     ELSE list_zoom_processes(system_name, cfg.listing)
    /\ kidx' = 1
    /\ pc' = IF processes' # <<>> THEN "kill" ELSE "ensure_backup_root"
    /\ UNCHANGED <<exit_code, hist, fs, clock, report, system_name, kills, backup_root,
                   backup_dir, targets, tidx, restVars>>

\* list_zoom_processes; CalledProcessError is caught by main (parser.error exits
\* 2), any other failure to run the command is not (traceback, status 1)
ListProcesses ==
    /\ pc = "list"
    /\ IF cfg.listing = "CalledProcessError"
       THEN Exit(2) /\ UNCHANGED <<processes, kidx>>
       ELSE IF cfg.listing = "OSError"
       THEN Exit(1) /\ UNCHANGED <<processes, kidx>>
       ELSE /\ processes' = list_zoom_processes(system_name, cfg.listing)
            /\ kidx' = 1
            /\ pc' = IF processes' # <<>> THEN "kill" ELSE "ensure_backup_root"
            /\ UNCHANGED <<exit_code, hist>>
    /\ UNCHANGED <<fs, clock, report, system_name, kills, backup_root, backup_dir,
                   targets, tidx, restVars>>

\* mutant: PermissionError is not caught and ends the run
KillOne_AbortsOnDenied(outcome) ==
    /\ IF cfg.dry_run
       THEN UNCHANGED kills
       ELSE kills' = Append(kills, processes[kidx].pid)
    /\ report' = [pid |-> processes[kidx].pid, outcome |-> outcome]
    /\ IF outcome = "PermissionError"
       THEN Exit(1) /\ UNCHANGED kidx
       ELSE /\ kidx' = kidx + 1
            /\ pc' = IF kidx < Len(processes) THEN "kill" ELSE "ensure_backup_root"
            /\ UNCHANGED <<exit_code, hist>>

\* kill_processes, one turn of its loop, os.kill having the given outcome
KillOne(outcome) ==
    /\ IF cfg.dry_run
       THEN UNCHANGED kills
       ELSE kills' = Append(kills, processes[kidx].pid)
    /\ report' = [pid |-> processes[kidx].pid, outcome |-> outcome]
    /\ kidx' = kidx + 1
    /\ pc' = IF kidx < Len(processes) THEN "kill" ELSE "ensure_backup_root"
    /\ UNCHANGED <<exit_code, hist>>

KillProcesses ==
    /\ pc = "kill"
    /\ \E outcome \in KillOutcomes :
         /\ cfg.dry_run <=> outcome = "would"
         /\ KillOne(outcome)
    /\ UNCHANGED <<fs, clock, system_name, processes, backup_root, backup_dir,
                   targets, tidx, restVars>>

\* ensure_backup_root
EnsureBackupRoot ==
    /\ pc = "ensure_backup_root"
    /\ backup_root' = IF cfg.backup_root.given THEN cfg.backup_root.val
                      ELSE DefaultBackupRoot(environ)
    /\ fs' = MkdirP(fs, backup_root')
    /\ pc' = "timestamped_backup_dir"
    /\ UNCHANGED <<clock, report, system_name, processes, kidx, kills, backup_dir,
                   targets, tidx, exit_code, hist, restVars>>

\* timestamped_backup_dir
TimestampedBackupDir ==
    /\ pc = "timestamped_backup_dir"
    /\ backup_dir' = backup_root \o <<Stamp(clock)>>
    /\ fs' = MkdirP(fs, backup_dir')
    /\ pc' = "zoom_paths"
    /\ UNCHANGED <<clock, report, system_name, processes, kidx, kills, backup_root,
                   targets, tidx, exit_code, hist, restVars>>

\* targets = zoom_paths(system_name)
ZoomPaths ==
    /\ pc = "zoom_paths"
    /\ targets' = zoom_paths(system_name, NoArg, NoArg, environ).paths
    /\ tidx' = 1
    /\ pc' = "backup"
    /\ UNCHANGED <<fs, clock, report, system_name, processes, kidx, kills, backup_root,
                   backup_dir, exit_code, hist, restVars>>

\* one turn of the backup loop; an exception of the move is caught nowhere: the
\* run ends with a traceback and status 1.  After the last turn "Reset complete"
\* is printed and main returns 0.
BackupOne ==
    /\ pc = "backup"
    /\ LET path == targets[tidx]
           r    == backup_and_remove(fs, path, backup_dir, clock, cfg.dry_run,
                                      path \in unmovable)
       IN  /\ fs' = r.fs
           /\ report' = [target |-> path, outcome |-> r.outcome,
                         destination |-> r.destination]
           /\ IF r.outcome = "raised"
              THEN Exit(1) /\ UNCHANGED tidx
              ELSE /\ tidx' = tidx + 1
                   /\ IF tidx < Len(targets)
                      THEN UNCHANGED <<pc, exit_code, hist>>
                      ELSE Exit(0)
    /\ UNCHANGED <<clock, system_name, processes, kidx, kills, backup_root, backup_dir,
                   targets, restVars>>

\* the program is run again, some seconds later
RunAgain ==
    /\ pc = "exit"
    /\ Len(hist) < MaxRuns
    /\ \E gap \in {0, MaxGap} : clock' = clock + gap
    /\ pc' = "main"
    /\ UNCHANGED <<fs, report, system_name, processes, kidx, kills, backup_root,
                   backup_dir, targets, tidx, exit_code, hist, restVars>>

NextReset ==
    \/ Main
    \/ DetectSystem
    \/ ListProcesses
    \/ KillProcesses
    \/ EnsureBackupRoot
    \/ TimestampedBackupDir
    \/ ZoomPaths
    \/ BackupOne
    \/ RunAgain

SpecReset == InitReset /\ [][NextReset]_vars

\* the record of the run in progress (or of the last run)
Run == hist[Len(hist)]

IsMoveReport == "target" \in DOMAIN report

IsKillReport == "pid" \in DOMAIN report

\* the direct children of directory d
Children(f, d) == { q \in DOMAIN f : Len(q) = Len(d) + 1 /\ IsPrefix(d, q) }

\* d holds the tree that was at p in filesystem f0
HoldsTreeOf(f, d, f0, p) == \E child \in Children(f, d) : SameTree(f0, p, f, child)

\* C1: in dry-run mode no termination request is sent and the filesystem, the
\* backup root and its children included, stays what it was when the run began.
C1_DryRunMutatesNothing ==
    (hist # <<>> /\ cfg.dry_run) => kills = <<>> /\ fs = Run.start_fs

\* C2: a move failure on one catalog entry does not halt the backup loop: every
\* later entry that exists and can be moved ends up in the backup directory.
C2_MoveFailureDoesNotHaltLoop ==
    (pc = "exit" /\ ~cfg.dry_run /\ IsMoveReport /\ report.outcome = "raised") =>
        \A j \in (tidx + 1)..Len(targets) :
            (Exists(Run.start_fs, targets[j]) /\ targets[j] \notin unmovable) =>
                /\ ~Exists(fs, targets[j])
                /\ HoldsTreeOf(fs, backup_dir, Run.start_fs, targets[j])

\* the platform is not supported, or the kill phase is on and the listing fails
FatalFailure ==
    \/ cfg.raw_name \notin DOMAIN SUPPORTED_SYSTEMS
    \/ ~cfg.skip_kill /\ cfg.listing \in {"CalledProcessError", "OSError"}

\* C3: when platform detection fails, or the listing fails with the kill phase on,
\* the run ends with a non-zero status having sent no termination request, created
\* no backup root or timestamped directory, and moved no catalog path.
C3_FatalFailuresBeforeSideEffects ==
    (hist # <<>> /\ FatalFailure) =>
        /\ pc \in {"main", "detect", "list", "exit"}
        /\ kills = <<>>
        /\ fs = Run.start_fs
        /\ backup_root = <<>> /\ backup_dir = <<>>
        /\ pc = "exit" => exit_code # 0

C3_Witness ==
    /\ pc = "exit"
    /\ ~cfg.dry_run
    /\ cfg.listing = "CalledProcessError"
    /\ exit_code = 2
    /\ \E p \in Range(Catalog(cfg.raw_name)) : Exists(fs, p)

AllPids == [i \in 1..Len(processes) |-> processes[i].pid]

\* C4: in live mode kill_processes issues one termination request per record, in
\* input order, whatever the outcomes of the earlier requests, and returns
\* normally: the run goes on to ensure_backup_root.
C4_OneRequestPerRecord ==
    ~cfg.dry_run =>
        /\ pc = "kill" => kidx <= Len(processes) /\ kills = SubSeq(AllPids, 1, kidx - 1)
        /\ pc # "kill" => kills = AllPids
        /\ (pc = "exit" /\ processes # <<>>) => backup_root # <<>>

\* both records were sent a request, the last one was denied, the call returned
C4_Witness ==
    /\ pc = "ensure_backup_root"
    /\ ~cfg.dry_run
    /\ kills = <<12, 7>>
    /\ IsKillReport /\ report.outcome = "PermissionError"

ExistingEntries(f) == { p \in Range(Catalog(cfg.raw_name)) : Exists(f, p) }

\* run r is a finished live run that returned 0
CompletedLive(r) == ~cfg.dry_run /\ hist[r].exit_code = 0

\* the backup directory of run r holds the catalog paths that existed when the run
\* started, and the run put nothing else there
HoldsWhatExisted(r) ==
    /\ IsDir(fs, hist[r].backup_dir)
    /\ \A p \in ExistingEntries(hist[r].start_fs) :
           HoldsTreeOf(fs, hist[r].backup_dir, hist[r].start_fs, p)
    /\ Cardinality(Children(fs, hist[r].backup_dir)
                      \ Children(hist[r].start_fs, hist[r].backup_dir))
           = Cardinality(ExistingEntries(hist[r].start_fs))

\* C6: two live runs in a row, the second at least one second after the first,
\* leave two distinct timestamped directories under the backup root; each holds
\* the catalog paths that existed when its run started; the second run does not
\* fail and creates nothing for the entries the first run moved away.
C6_TwoRunsTwoBackups ==
    \A r \in 1..(Len(hist) - 1) :
        ( /\ CompletedLive(r)
          /\ hist[r + 1].exit_code # -1
          /\ hist[r + 1].start_clock >= hist[r].start_clock + 1 ) =>
            /\ hist[r + 1].exit_code = 0
            /\ hist[r].backup_dir # hist[r + 1].backup_dir
            /\ Parent(hist[r].backup_dir) = Parent(hist[r + 1].backup_dir)
            /\ HoldsWhatExisted(r)
            /\ HoldsWhatExisted(r + 1)
            /\ \A p \in ExistingEntries(hist[r].start_fs) :
                   /\ ~Exists(hist[r + 1].start_fs, p)
                   /\ ~HoldsTreeOf(fs, hist[r + 1].backup_dir, hist[r].start_fs, p)

\* two runs one second apart; the first moved two entries named zoom
C6_Witness ==
    /\ pc = "exit"
    /\ Len(hist) = 2
    /\ CompletedLive(1) /\ CompletedLive(2)
    /\ hist[2].start_clock >= hist[1].start_clock + 1
    /\ Cardinality(ExistingEntries(hist[1].start_fs)) = 2
    /\ Exists(fs, hist[1].backup_dir \o <<"zoom">>)
    /\ Exists(fs, hist[1].backup_dir \o <<"zoom-000000">>)
    /\ Children(fs, hist[2].backup_dir) = {}

====
